---- MODULE Spec2Model ----
(***************************************************************************)
(* automeme: the MCP client (src/mcp_client.py: main, MCPClient.chat_loop, *)
(* MCPClient.connect_to_server, MCPClient.process_query, cleanup) and the  *)
(* meme tool (src/src/services/meme_generator.py: create_meme).            *)
(*                                                                         *)
(* A Python string is a sequence of fragments (TLA+ strings); the command  *)
(* line path and the console lines are sequences of single characters, so  *)
(* that endswith, strip and lower are computed and not assumed.            *)
(* The client is one thread of control: main calls connect_to_server and   *)
(* chat_loop, chat_loop calls process_query; every await of a remote       *)
(* request is two steps (the request is sent, its answer arrives).         *)
(***************************************************************************)
EXTENDS Integers, Sequences, FiniteSets, TLC

VARIABLES
    \* main
    argv,                 \* sys.argv[1:], a sequence of paths
    mainPc,               \* "start", "connect", "chat_loop", "except", "finally", "done", "exit_usage"
    mainExc,              \* what leaves main's try block: "none", an Exception, "KeyboardInterrupt"
    output,               \* the last thing printed: [kind, text]
    \* MCPClient and connect_to_server
    connPc,               \* "idle", "check", "stdio", "session", "initialize", "list_tools", "connected", "failed"
    command,              \* "python" / "node" / "" (not chosen yet)
    session,              \* self.session: "None" or "ClientSession"
    exit_stack,           \* self.exit_stack: the contexts entered, oldest first
    spawned,              \* subprocesses spawned by stdio_client
    released,             \* contexts closed by aclose, in closing order
    cleanupCalls,         \* calls of cleanup
    \* chat_loop
    shPc,                 \* "idle", "read", "process", "returned", "aborted"
    stdinEOF,             \* console input has reached end-of-input
    query,                \* the stripped input line
    queriesSubmitted,     \* calls of process_query
    \* process_query
    pqPc,                 \* "idle", "list_tools", "await_list_tools", "first_call", "next_call",
                          \* "await_model", "blocks", "await_tool", "returned", "raised"
    pqError,              \* the exception process_query raised, "none" otherwise
    available_tools,      \* the descriptors fetched for this query
    response,             \* response.content of the last model response
    idx,                  \* position of the for loop in response.content
    has_tool_calls,
    final_text,
    conversation_history,
    answer,               \* the value process_query returned: <<>> (nothing) or <<string>>
    \* the two collaborators, as seen from the client
    inflight,             \* requests sent and not yet answered
    modelCalls,           \* requests of this query sent to the Model Gateway
    toolCalls,            \* call_tool requests of this query: [round, name, input, done, raised, content]
    received,             \* model responses of this query, in arrival order
    gatewayFailed,        \* the Model Gateway failed during this query
    \* create_meme
    dir,                  \* generated_memes: file name -> content; "absent" when the directory is not there
    writes,               \* successful saves: [template, path, content]
    memeCalls,            \* calls of create_meme
    memeResult,           \* the outcome of the last call: [kind, text]
    memeLog               \* per call: what it read of the HTTP outcome, and its outcome

mainVars == <<argv, mainPc, mainExc, output>>
connVars == <<connPc, command, session, exit_stack, spawned, released, cleanupCalls>>
shellVars == <<shPc, stdinEOF, query, queriesSubmitted>>
pqVars == <<pqPc, pqError, available_tools, response, idx, has_tool_calls, final_text,
            conversation_history, answer>>
netVars == <<inflight, modelCalls, toolCalls, received, gatewayFailed>>
memeVars == <<dir, writes, memeCalls, memeResult, memeLog>>
vars == <<mainVars, connVars, shellVars, pqVars, netVars, memeVars>>

----------------------------------------------------------------------------
\* Bounds of the model.

\* queries one session submits
MaxQueries == 2
\* content blocks the model returns during one query, over all its responses
MaxBlocks == 2
\* calls of create_meme
MaxMemeCalls == 3
\* calls of cleanup over the life of one client
MaxCleanups == 2

----------------------------------------------------------------------------
\* Strings.

RECURSIVE Join(_, _)
\* sep.join(parts)
Join(parts, sep) ==
    IF parts = <<>> THEN <<>>
    ELSE IF Len(parts) = 1 THEN parts[1]
    ELSE parts[1] \o sep \o Join(Tail(parts), sep)

NL == <<"\n">>

\* s.endswith(suffix)
EndsWith(s, suffix) ==
    /\ Len(s) >= Len(suffix)
    /\ SubSeq(s, Len(s) - Len(suffix) + 1, Len(s)) = suffix

IsSpace(c) == c \in {" ", "\t", "\n"}

RECURSIVE LStrip(_)
LStrip(s) == IF s # <<>> /\ IsSpace(Head(s)) THEN LStrip(Tail(s)) ELSE s

RECURSIVE RStrip(_)
RStrip(s) ==
    IF s # <<>> /\ IsSpace(s[Len(s)]) THEN RStrip(SubSeq(s, 1, Len(s) - 1)) ELSE s

\* s.strip()
Strip(s) == RStrip(LStrip(s))

LowerChar(c) ==
    CASE c = "Q" -> "q"
      [] c = "U" -> "u"
      [] c = "I" -> "i"
      [] c = "T" -> "t"
      [] c = "H" -> "h"
      [] OTHER -> c

\* s.lower()
Lower(s) == [i \in 1..Len(s) |-> LowerChar(s[i])]

----------------------------------------------------------------------------
\* The inputs the environment supplies.

PY == <<".", "p", "y">>
JS == <<".", "j", "s">>

\* sys.argv[1]: supported, unsupported, and near misses of the two suffixes
Paths ==
    { <<"s">> \o PY, <<"s">> \o JS, <<"s">> \o PY \o <<"c">>, <<"p", "y">>,
      <<"s", ".", "P", "Y">>, PY \o <<".", "t">>, <<>> }

Argvs == {<<>>} \cup {<<p>> : p \in Paths}

QUIT == <<"q", "u", "i", "t">>

\* console lines: the exit command as typed in several ways, and two queries
Lines ==
    { QUIT, <<" ", "Q", "u", "I", "T", "\n">>, <<"h", "i", " ">>, QUIT \o <<"!">> }

AddTool ==
    [name |-> "add", description |-> "Add two numbers", input_schema |-> "schema(add)"]

MemeTool ==
    [name |-> "create_meme", description |-> "generate memes",
     input_schema |-> "schema(create_meme)"]

\* what list_tools may answer: the provider's tool list, which may differ between queries
ToolLists == { <<AddTool>>, <<AddTool, MemeTool>> }

TextBlock(t) == [type |-> "text", text |-> t, name |-> "", input |-> ""]

ToolUseBlock(n, i) == [type |-> "tool_use", text |-> <<>>, name |-> n, input |-> i]

Blocks ==
    { TextBlock(<<"a">>), TextBlock(<<"b">>),
      ToolUseBlock("add", "{'a': 2, 'b': 3}"),
      ToolUseBlock("create_meme", "{'meme_concept': {...}}") }

\* the responses of at most n blocks
Responses(n) == UNION { [1..k -> Blocks] : k \in 0..n }

\* what call_tool may return: a result, or a result the provider marks as an error
ToolResults(name, tools) ==
    { [isError |-> TRUE, content |-> <<"[TextContent(error)]">>] } \cup
    IF \E i \in 1..Len(tools) : tools[i].name = name
    THEN { [isError |-> FALSE, content |-> <<"[TextContent(ok)]">>] }
    ELSE {}

RECURSIVE BlocksIn(_)
\* the number of blocks of a sequence of responses
BlocksIn(rs) == IF rs = <<>> THEN 0 ELSE Len(Head(rs)) + BlocksIn(Tail(rs))

----------------------------------------------------------------------------
\* MCPClient.connect_to_server, cleanup and main.

\* a slip: '.py' in path, anywhere, instead of path.endswith('.py')
is_python_anywhere(path) ==
    \E i \in 1..Len(path) : i + 2 <= Len(path) /\ SubSeq(path, i, i + 2) = PY

is_python(path) == EndsWith(path, PY)

is_js(path) == EndsWith(path, JS)

\* lines 29-30: the ValueError is raised unless this holds
IsSupportedScript(path) == is_python(path) \/ is_js(path)

CommandFor(path) == IF is_python(path) THEN "python" ELSE "node"

RECURSIVE Reverse(_)
Reverse(s) == IF s = <<>> THEN <<>> ELSE Append(Reverse(Tail(s)), Head(s))

\* the frame of process_query is dropped (it returned, raised, or was unwound)
\* a slip: the two lists are attributes of the client, made once in __init__
NewList_kept(old) == old

\* lines 90-91: final_text and conversation_history are locals of the call, bound
\* to a new empty list each time, whatever an earlier call left in its own
NewList(old) == <<>>

DropQueryFrame ==
    /\ pqPc' = "idle"
    /\ pqError' = "none"
    /\ available_tools' = <<>>
    /\ response' = <<>>
    /\ idx' = 0
    /\ has_tool_calls' = FALSE
    /\ final_text' = NewList(final_text)
    /\ conversation_history' = NewList(conversation_history)
    /\ answer' = <<>>
    /\ inflight' = {}
    /\ modelCalls' = <<>>
    /\ toolCalls' = <<>>
    /\ received' = <<>>
    /\ gatewayFailed' = FALSE

\* main, lines 164-166: no script path
main_usage ==
    /\ mainPc = "start"
    /\ Len(argv) < 1
    /\ mainPc' = "exit_usage"
    /\ output' = [kind |-> "usage", text |-> "Usage: python client.py <path_to_server_script>"]
    /\ UNCHANGED <<argv, mainExc, connVars, shellVars, pqVars, netVars, memeVars>>

\* main, lines 170-173: the client is constructed and connect_to_server is entered
main_construct ==
    /\ mainPc = "start"
    /\ Len(argv) >= 1
    /\ mainPc' = "connect"
    /\ connPc' = "check"
    /\ session' = "None"
    /\ exit_stack' = <<>>
    /\ UNCHANGED <<argv, mainExc, output, command, spawned, released, cleanupCalls,
                   shellVars, pqVars, netVars, memeVars>>

\* an Exception leaves connect_to_server and reaches main's except clause
ConnectRaise(e) ==
    /\ connPc' = "failed"
    /\ mainExc' = e
    /\ mainPc' = "except"

\* connect_to_server, lines 27-39
connect_check ==
    /\ mainPc = "connect" /\ connPc = "check"
    /\ IF ~IsSupportedScript(argv[1])
       THEN /\ ConnectRaise("ValueError")
            /\ UNCHANGED command
       ELSE /\ command' = CommandFor(argv[1])
            /\ connPc' = "stdio"
            /\ UNCHANGED <<mainExc, mainPc>>
    /\ UNCHANGED <<argv, output, session, exit_stack, spawned, released, cleanupCalls,
                   shellVars, pqVars, netVars, memeVars>>

\* connect_to_server, line 42: stdio_client spawns the server, or fails to
connect_stdio ==
    /\ mainPc = "connect" /\ connPc = "stdio"
    /\ \E ok \in BOOLEAN :
        IF ok
        THEN /\ spawned' = spawned + 1
             /\ exit_stack' = Append(exit_stack, "stdio_client")
             /\ connPc' = "session"
             /\ UNCHANGED <<mainExc, mainPc>>
        ELSE /\ ConnectRaise("SpawnError")
             /\ UNCHANGED <<spawned, exit_stack>>
    /\ UNCHANGED <<argv, output, command, session, released, cleanupCalls,
                   shellVars, pqVars, netVars, memeVars>>

\* connect_to_server, lines 45-47: the ClientSession context is entered
connect_session ==
    /\ mainPc = "connect" /\ connPc = "session"
    /\ session' = "ClientSession"
    /\ exit_stack' = Append(exit_stack, "ClientSession")
    /\ connPc' = "initialize"
    /\ UNCHANGED <<argv, mainPc, mainExc, output, command, spawned, released, cleanupCalls,
                   shellVars, pqVars, netVars, memeVars>>

\* connect_to_server, line 50: the handshake
connect_initialize ==
    /\ mainPc = "connect" /\ connPc = "initialize"
    /\ \E ok \in BOOLEAN :
        IF ok
        THEN connPc' = "list_tools" /\ UNCHANGED <<mainExc, mainPc>>
        ELSE ConnectRaise("HandshakeError")
    /\ UNCHANGED <<argv, output, command, session, exit_stack, spawned, released,
                   cleanupCalls, shellVars, pqVars, netVars, memeVars>>

\* connect_to_server, lines 54-56, and main, line 174: chat_loop is entered
connect_list_tools ==
    /\ mainPc = "connect" /\ connPc = "list_tools"
    /\ \E ok \in BOOLEAN :
        IF ok
        THEN /\ connPc' = "connected"
             /\ mainPc' = "chat_loop"
             /\ shPc' = "read"
             /\ UNCHANGED mainExc
        ELSE /\ ConnectRaise("ProviderUnavailable")
             /\ UNCHANGED shPc
    /\ UNCHANGED <<argv, output, command, session, exit_stack, spawned, released,
                   cleanupCalls, stdinEOF, query, queriesSubmitted,
                   pqVars, netVars, memeVars>>

\* a slip: cleanup at the end of the try body, not in a finally clause, so that
\* the except clause ends main
main_except_without_finally ==
    /\ mainPc = "except"
    /\ output' = [kind |-> "fatal", text |-> mainExc]
    /\ mainPc' = "done"
    /\ UNCHANGED <<argv, mainExc, connVars, shellVars, pqVars, netVars, memeVars>>

\* main, lines 175-178: except Exception
main_except ==
    /\ mainPc = "except"
    /\ output' = [kind |-> "fatal", text |-> mainExc]
    /\ mainPc' = "finally"
    /\ UNCHANGED <<argv, mainExc, connVars, shellVars, pqVars, netVars, memeVars>>

\* MCPClient.cleanup: exit_stack.aclose() closes the contexts, last entered first
cleanup_keeps_stack ==
    /\ released' = released \o Reverse(exit_stack)
    /\ exit_stack' = exit_stack
    /\ cleanupCalls' = cleanupCalls + 1

cleanup ==
    /\ released' = released \o Reverse(exit_stack)
    /\ exit_stack' = <<>>
    /\ cleanupCalls' = cleanupCalls + 1

\* main, lines 179-180: finally
main_finally ==
    /\ mainPc = "finally"
    /\ cleanup
    /\ mainPc' = "done"
    /\ UNCHANGED <<argv, mainExc, output, connPc, command, session, spawned,
                   shellVars, pqVars, netVars, memeVars>>

\* lines 159-161 called once more by the owner of the client, after main's finally
cleanup_again ==
    /\ mainPc = "done"
    /\ cleanupCalls < MaxCleanups
    /\ cleanup
    /\ UNCHANGED <<argv, mainPc, mainExc, output, connPc, command, session, spawned,
                   shellVars, pqVars, netVars, memeVars>>

\* a process-level interrupt inside main's try statement: KeyboardInterrupt
\* (CancelledError under asyncio.run) is no Exception, so no except clause of
\* chat_loop or main takes it and every frame is unwound to main's finally
interrupt ==
    /\ mainPc \in {"connect", "chat_loop", "except"}
    /\ mainPc' = "finally"
    /\ mainExc' = "KeyboardInterrupt"
    /\ connPc' = IF mainPc = "connect" THEN "failed" ELSE connPc
    /\ shPc' = IF mainPc = "chat_loop" THEN "aborted" ELSE shPc
    /\ DropQueryFrame
    /\ UNCHANGED <<argv, output, command, session, exit_stack, spawned, released,
                   cleanupCalls, stdinEOF, query, queriesSubmitted, memeVars>>

----------------------------------------------------------------------------
\* MCPClient.chat_loop.

\* line 150: query.lower() == 'quit'
IsQuit(q) == Lower(q) = QUIT

\* a slip: the except clause lies outside the while loop, so the exception ends chat_loop
chat_loop_handler_outside_loop(e) ==
    /\ output' = [kind |-> "error", text |-> e]
    /\ shPc' = "returned"
    /\ mainPc' = "finally"
    /\ UNCHANGED mainExc

\* lines 156-157: except Exception prints the error; the while loop goes on
chat_loop_handler(e) ==
    /\ output' = [kind |-> "error", text |-> e]
    /\ shPc' = "read"
    /\ UNCHANGED <<mainPc, mainExc>>

\* lines 148-153: a line is read; 'quit' leaves the loop (and main's try block),
\* anything else is handed to process_query
chat_loop_read ==
    /\ mainPc = "chat_loop" /\ shPc = "read"
    /\ ~stdinEOF
    /\ output' = [kind |-> "prompt", text |-> "\nQuery: "]
    /\ \E line \in Lines :
        /\ query' = Strip(line)
        /\ IF IsQuit(Strip(line))
           THEN /\ shPc' = "returned"
                /\ mainPc' = "finally"
                /\ UNCHANGED <<queriesSubmitted, pqPc>>
           ELSE /\ queriesSubmitted < MaxQueries
                /\ queriesSubmitted' = queriesSubmitted + 1
                /\ shPc' = "process"
                /\ pqPc' = "list_tools"
                /\ UNCHANGED mainPc
    /\ UNCHANGED <<argv, mainExc, connVars, stdinEOF, pqError,
                   available_tools, response, idx, has_tool_calls, final_text,
                   conversation_history, answer, netVars, memeVars>>

\* line 148 at end-of-input: input() raises EOFError, an Exception, inside the try
chat_loop_eof ==
    /\ mainPc = "chat_loop" /\ shPc = "read"
    /\ stdinEOF' = TRUE
    /\ chat_loop_handler("EOFError")
    /\ UNCHANGED <<argv, connVars, query, queriesSubmitted, pqVars,
                   netVars, memeVars>>

\* line 154: the answer is printed
chat_loop_print ==
    /\ mainPc = "chat_loop" /\ shPc = "process" /\ pqPc = "returned"
    /\ output' = [kind |-> "answer", text |-> answer[1]]
    /\ shPc' = "read"
    /\ DropQueryFrame
    /\ UNCHANGED <<argv, mainPc, mainExc, connVars, stdinEOF, query, queriesSubmitted,
                   memeVars>>

\* lines 156-157: process_query raised
chat_loop_except ==
    /\ mainPc = "chat_loop" /\ shPc = "process" /\ pqPc = "raised"
    /\ chat_loop_handler(pqError)
    /\ DropQueryFrame
    /\ UNCHANGED <<argv, connVars, stdinEOF, query, queriesSubmitted, memeVars>>

----------------------------------------------------------------------------
\* MCPClient.process_query.

\* line 70
ToolLine(tool) == <<"- ", tool.name, ": ", tool.description>>

\* lines 69-72
tools_description(tools) == Join([i \in 1..Len(tools) |-> ToolLine(tools[i])], NL)

\* lines 78-82
SystemFirst(tools) ==
    <<"You have access to the following tools that you can and should use if they are relevant to the user's query:\n\n">>
    \o tools_description(tools)
    \o <<"\n\nYou should use these tools to help users accomplish their goals. Don't say you can't do something if a tool exists to do it.">>

\* lines 127-131
SystemNext(tools) ==
    <<"You have access to the following tools that you can and should use:\n\n">>
    \o tools_description(tools)
    \o <<"\n\nYou should use these tools to help users accomplish their goals. Don't say you can't do something if a tool exists to do it.">>

Message(role, content) == [role |-> role, content |-> content]

\* lines 75-88
FirstRequest(q, tools) ==
    [system |-> SystemFirst(tools), messages |-> <<Message("user", q)>>, tools |-> tools]

\* a slip: the query is put before the history
NextRequest_query_first(history, q, tools) ==
    [system |-> SystemNext(tools), messages |-> <<Message("user", q)>> \o history,
     tools |-> tools]

\* lines 124-137
NextRequest(history, q, tools) ==
    [system |-> SystemNext(tools), messages |-> history \o <<Message("user", q)>>,
     tools |-> tools]

\* line 107
ToolResultText(name, content) == <<"[Tool ", name, " result: ">> \o content \o <<"]">>

\* line 112
ToolUseText(name, input) ==
    <<"I'm using the ", name, " tool with these parameters: ", input>>

\* line 116
ToolResultMessage(content) == <<"Tool result: ">> \o content

\* a slip: insert(0, text) instead of append(text)
TextToFinal_prepend(ft, block) == <<block.text>> \o ft

\* lines 98-99, on final_text
TextToFinal(ft, block) == Append(ft, block.text)

\* lines 98-99, on conversation_history
TextToHistory(h, block) == Append(h, Message("assistant", block.text))

\* a slip: the result goes to the history only
ToolToFinal_dropped(ft, block, result) == ft

\* line 107
ToolToFinal(ft, block, result) == Append(ft, ToolResultText(block.name, result.content))

\* a slip: the result is recorded before the note of the call
ToolToHistory_result_first(h, block, result) ==
    h \o << Message("user", ToolResultMessage(result.content)),
            Message("assistant", ToolUseText(block.name, block.input)) >>

\* lines 110-117
ToolToHistory(h, block, result) ==
    h \o << Message("assistant", ToolUseText(block.name, block.input)),
            Message("user", ToolResultMessage(result.content)) >>

\* a slip: the break is unconditional
LoopEnds_always(tool_calls) == TRUE

\* line 120: the loop is left when the response held no tool_use block
LoopEnds(tool_calls) == ~tool_calls

\* line 139
FinalAnswer(ft) == Join(ft, NL)

\* a request is sent, and the coroutine waits for its answer
Send(reqs, r) == reqs \cup {r}

\* a slip: the request is started as a task and not awaited
Answered_not_awaited(reqs, r) == reqs

\* the answer of a request arrives
Answered(reqs, r) == reqs \ {r}

ListToolsReq == [kind |-> "list_tools", n |-> queriesSubmitted]

ModelReq == [kind |-> "model", n |-> Len(modelCalls)]

ToolReq == [kind |-> "call_tool", n |-> Len(toolCalls)]

\* an exception leaves process_query
QueryRaise(e) ==
    /\ pqPc' = "raised"
    /\ pqError' = e

pqFrame == <<available_tools, response, idx, has_tool_calls, final_text,
             conversation_history, answer>>

outer == <<mainVars, connVars, shellVars, memeVars>>

\* line 61: list_tools is awaited
pq_list_tools ==
    /\ mainPc = "chat_loop" /\ pqPc = "list_tools"
    /\ inflight' = Send(inflight, ListToolsReq)
    /\ pqPc' = "await_list_tools"
    /\ UNCHANGED <<pqError, pqFrame, modelCalls, toolCalls, received, gatewayFailed, outer>>

\* lines 61-72: the tool list arrives
pq_list_tools_done ==
    /\ mainPc = "chat_loop" /\ pqPc = "await_list_tools"
    /\ \E tools \in ToolLists : available_tools' = tools
    /\ inflight' = Answered(inflight, ListToolsReq)
    /\ pqPc' = "first_call"
    /\ UNCHANGED <<pqError, response, idx, has_tool_calls, final_text,
                   conversation_history, answer, modelCalls, toolCalls, received,
                   gatewayFailed, outer>>

\* line 61: list_tools fails (the transport is broken)
pq_list_tools_fail ==
    /\ mainPc = "chat_loop" /\ pqPc = "await_list_tools"
    /\ inflight' = Answered(inflight, ListToolsReq)
    /\ QueryRaise("ProviderUnavailable")
    /\ UNCHANGED <<pqFrame, modelCalls, toolCalls, received, gatewayFailed, outer>>

\* lines 75-88: the first model call
pq_first_call ==
    /\ mainPc = "chat_loop" /\ pqPc = "first_call"
    /\ modelCalls' = Append(modelCalls, FirstRequest(query, available_tools))
    /\ inflight' = Send(inflight, [kind |-> "model", n |-> Len(modelCalls) + 1])
    /\ pqPc' = "await_model"
    /\ UNCHANGED <<pqError, pqFrame, toolCalls, received, gatewayFailed, outer>>

\* lines 124-137: a follow-up model call
pq_next_call ==
    /\ mainPc = "chat_loop" /\ pqPc = "next_call"
    /\ modelCalls' =
          Append(modelCalls, NextRequest(conversation_history, query, available_tools))
    /\ inflight' = Send(inflight, [kind |-> "model", n |-> Len(modelCalls) + 1])
    /\ pqPc' = "await_model"
    /\ UNCHANGED <<pqError, pqFrame, toolCalls, received, gatewayFailed, outer>>

\* a model response arrives: lines 90-91 after the first call, line 95 on each
\* turn of the while loop
pq_model_done ==
    /\ mainPc = "chat_loop" /\ pqPc = "await_model"
    /\ \E r \in Responses(MaxBlocks - BlocksIn(received)) :
        /\ response' = r
        /\ received' = Append(received, r)
    /\ inflight' = Answered(inflight, ModelReq)
    /\ idx' = 1
    /\ has_tool_calls' = FALSE
    /\ final_text' = IF received = <<>> THEN NewList(final_text) ELSE final_text
    /\ conversation_history' =
          IF received = <<>> THEN NewList(conversation_history) ELSE conversation_history
    /\ pqPc' = "blocks"
    /\ UNCHANGED <<pqError, available_tools, answer, modelCalls, toolCalls,
                   gatewayFailed, outer>>

\* a slip: the failure of messages.create is caught and returned as the answer
pq_model_fail_swallowed ==
    /\ mainPc = "chat_loop" /\ pqPc = "await_model"
    /\ inflight' = Answered(inflight, ModelReq)
    /\ gatewayFailed' = TRUE
    /\ answer' = <<FinalAnswer(Append(final_text, <<"Error: ModelAPIError">>))>>
    /\ pqPc' = "returned"
    /\ UNCHANGED <<pqError, available_tools, response, idx, has_tool_calls, final_text,
                   conversation_history, modelCalls, toolCalls, received, outer>>

\* the Model Gateway fails: messages.create raises, and nothing in process_query
\* catches it
pq_model_fail ==
    /\ mainPc = "chat_loop" /\ pqPc = "await_model"
    /\ inflight' = Answered(inflight, ModelReq)
    /\ gatewayFailed' = TRUE
    /\ QueryRaise("ModelAPIError")
    /\ UNCHANGED <<pqFrame, modelCalls, toolCalls, received, outer>>

\* lines 97-99: a text block
pq_text_block ==
    /\ mainPc = "chat_loop" /\ pqPc = "blocks"
    /\ idx <= Len(response)
    /\ response[idx].type = "text"
    /\ final_text' = TextToFinal(final_text, response[idx])
    /\ conversation_history' = TextToHistory(conversation_history, response[idx])
    /\ idx' = idx + 1
    /\ UNCHANGED <<pqPc, pqError, available_tools, response, has_tool_calls, answer,
                   netVars, outer>>

\* lines 100-106: a tool_use block; call_tool is awaited
pq_tool_call ==
    /\ mainPc = "chat_loop" /\ pqPc = "blocks"
    /\ idx <= Len(response)
    /\ response[idx].type = "tool_use"
    /\ has_tool_calls' = TRUE
    /\ toolCalls' = Append(toolCalls,
          [round |-> Len(received), name |-> response[idx].name,
           input |-> response[idx].input, done |-> FALSE, raised |-> FALSE,
           content |-> <<>>])
    /\ inflight' = Send(inflight, [kind |-> "call_tool", n |-> Len(toolCalls) + 1])
    /\ pqPc' = "await_tool"
    /\ UNCHANGED <<pqError, available_tools, response, idx, final_text,
                   conversation_history, answer, modelCalls, received, gatewayFailed,
                   outer>>

\* lines 106-117: call_tool returns a result (which the provider may mark as an error)
pq_tool_done ==
    /\ mainPc = "chat_loop" /\ pqPc = "await_tool"
    /\ \E result \in ToolResults(response[idx].name, available_tools) :
        /\ final_text' = ToolToFinal(final_text, response[idx], result)
        /\ conversation_history' =
              ToolToHistory(conversation_history, response[idx], result)
        /\ toolCalls' = [toolCalls EXCEPT ![Len(toolCalls)].done = TRUE,
                                          ![Len(toolCalls)].content = result.content]
    /\ inflight' = Answered(inflight, ToolReq)
    /\ idx' = idx + 1
    /\ pqPc' = "blocks"
    /\ UNCHANGED <<pqError, available_tools, response, has_tool_calls, answer,
                   modelCalls, received, gatewayFailed, outer>>

\* line 106: call_tool raises (the transport fails, or the provider answers the
\* request with a protocol error); nothing in process_query catches it
pq_tool_fail ==
    /\ mainPc = "chat_loop" /\ pqPc = "await_tool"
    /\ toolCalls' = [toolCalls EXCEPT ![Len(toolCalls)].done = TRUE,
                                      ![Len(toolCalls)].raised = TRUE]
    /\ inflight' = Answered(inflight, ToolReq)
    /\ QueryRaise("ToolInvocationError")
    /\ UNCHANGED <<pqFrame, modelCalls, received, gatewayFailed, outer>>

\* lines 119-121 and 139: the for loop is over; break and return, or go on
pq_end_of_response ==
    /\ mainPc = "chat_loop" /\ pqPc = "blocks"
    /\ idx > Len(response)
    /\ IF LoopEnds(has_tool_calls)
       THEN /\ answer' = <<FinalAnswer(final_text)>>
            /\ pqPc' = "returned"
       ELSE /\ pqPc' = "next_call"
            /\ UNCHANGED answer
    /\ UNCHANGED <<pqError, available_tools, response, idx, has_tool_calls, final_text,
                   conversation_history, netVars, outer>>

----------------------------------------------------------------------------
\* create_meme (src/src/services/meme_generator.py).

Digit(d) ==
    CASE d = 0 -> "0" [] d = 1 -> "1" [] d = 2 -> "2" [] d = 3 -> "3" [] d = 4 -> "4"
      [] d = 5 -> "5" [] d = 6 -> "6" [] d = 7 -> "7" [] d = 8 -> "8" [] OTHER -> "9"

RECURSIVE Str(_)
\* str(n) of a natural number: its decimal digits
Str(n) == IF n < 10 THEN <<Digit(n)>> ELSE Str(n \div 10) \o <<Digit(n % 10)>>

\* template names; the second is the first followed by a numeric suffix
Templates == { <<"a">>, <<"a", "_", "1">>, <<"b">> }

\* the meme_concept argument: a dict, bare or wrapped in a 'meme_concept' key,
\* complete or without one of its required keys
Concepts ==
    UNION { { [template |-> t, top_text |-> "A", bottom_text |-> "B"],
              [meme_concept |-> [template |-> t, top_text |-> "A", bottom_text |-> "B"]],
              [template |-> t, top_text |-> "A", bottom_text |-> "B", font_size |-> 30],
              [template |-> t, top_text |-> "A"] } : t \in Templates }

\* what requests.get may do: answer with a status and a content-type header, or raise
HttpOutcomes ==
    { [raised |-> "", status |-> st, content_type |-> ct] :
        st \in {200, 401, 404, 429, 500, 503},
        ct \in { <<"image", "/", "jpeg">>, <<"text", "/", "html">>, <<>> } }
    \cup { [raised |-> e, status |-> 0, content_type |-> <<>>] :
            e \in {"ConnectionError", "Timeout"} }

\* the output directory before the first call: absent, empty, or holding files
InitialDirs ==
    { [exists |-> FALSE, files |-> <<>>],
      [exists |-> TRUE, files |-> <<>>],
      [exists |-> TRUE, files |-> (<<"a", "_", "1", ".jpg">> :> 0)],
      [exists |-> TRUE, files |-> (<<"a", ".jpg">> :> 0) @@ (<<"a", "_", "2", ".jpg">> :> 0)] }

\* lines 59-60
Unwrap(concept) ==
    IF "meme_concept" \in DOMAIN concept THEN concept["meme_concept"] ELSE concept

\* lines 63-69: the keys read with [] raise KeyError when absent
MissingKey(concept) == {"template", "top_text", "bottom_text"} \ DOMAIN concept # {}

\* lines 63-69
Params(concept) ==
    [meme |-> concept["template"], top |-> concept["top_text"],
     bottom |-> concept["bottom_text"],
     font_size |-> IF "font_size" \in DOMAIN concept THEN concept["font_size"] ELSE 50,
     font |-> IF "font" \in DOMAIN concept THEN concept["font"] ELSE "Impact"]

\* lines 84-89: the message of the Exception raised for a status, <<>> for none
StatusMessage(status) ==
    CASE status = 500 ->
           <<"Meme generator service is experiencing internal issues. Please try again later.">>
      [] status = 401 ->
           <<"Invalid API key. Please check your RAPID_API_KEY environment variable.">>
      [] status = 429 -> <<"Rate limit exceeded. Please try again later.">>
      [] OTHER -> <<>>

\* line 91: raise_for_status raises HTTPError for 4xx and 5xx
RaisesForStatus(status) == status >= 400 /\ status < 600

\* str(e) of the HTTPError of raise_for_status
HttpErrorText(status) ==
    Str(status) \o (IF status < 500 THEN <<" Client Error">> ELSE <<" Server Error">>)

\* line 115
RequestFailed(text) == <<"Failed to generate meme: ">> \o text

\* str(e) of the AttributeError of None.text
NoneHasNoText == <<"'NoneType' object has no attribute 'text'">>

\* lines 114-117: the except clause. Every RequestException has the attribute
\* response, which is None unless the exception was made from a response (as
\* raise_for_status does); line 116 reads e.response.text before line 117 raises
HandlerMessage(text, has_response) ==
    IF has_response THEN RequestFailed(text) ELSE NoneHasNoText

\* line 95: 'image' in content_type
IsImage(content_type) == \E i \in 1..Len(content_type) : content_type[i] = "image"

\* line 96
UnexpectedType(content_type) ==
    <<"Unexpected response type: ">> \o content_type \o <<". Expected image data.">>

\* line 103, without the directory
BasePath(concept) == concept["template"]

\* line 104
FirstPath(base) == base \o <<".jpg">>

\* line 106
NumberedPath(base, counter) == base \o <<"_">> \o Str(counter) \o <<".jpg">>

\* a slip: if instead of while
NextFree_once(files, base, output_path, counter) ==
    IF output_path \in DOMAIN files THEN NumberedPath(base, counter) ELSE output_path

RECURSIVE NextFree(_, _, _, _)
\* lines 105-107: the while loop, from output_path and counter
NextFree(files, base, output_path, counter) ==
    IF output_path \in DOMAIN files
    THEN NextFree(files, base, NumberedPath(base, counter), counter + 1)
    ELSE output_path

\* lines 102-107
OutputPath(files, base) == NextFree(files, base, FirstPath(base), 1)

\* line 110
Saved(path) == <<"Successfully generated meme! Saved to: ", "generated_memes/">> \o path

Raised(text) == [kind |-> "raised", text |-> text]

\* what a call reads of the outcome of requests.get: the exception, or the status,
\* and the content-type header once the status checks have passed
Seen(http) ==
    IF http.raised # "" THEN [raised |-> http.raised, status |-> 0, content_type |-> <<>>]
    ELSE IF StatusMessage(http.status) # <<>> \/ RaisesForStatus(http.status)
    THEN [raised |-> "", status |-> http.status, content_type |-> <<>>]
    ELSE http

NoRequest == [raised |-> "(no request)", status |-> 0, content_type |-> <<>>]

\* lines 57-96 and 114-117: the message of the exception the call ends with, <<>>
\* when every check has passed
FailureOf(concept, http) ==
    IF MissingKey(concept) THEN <<"KeyError">>
    ELSE IF http.raised # "" THEN HandlerMessage(<<http.raised>>, FALSE)
    ELSE IF StatusMessage(http.status) # <<>> THEN StatusMessage(http.status)
    ELSE IF RaisesForStatus(http.status)
    THEN HandlerMessage(HttpErrorText(http.status), TRUE)
    ELSE IF ~IsImage(http.content_type) THEN UnexpectedType(http.content_type)
    ELSE <<>>

\* lines 98-109: the image is saved
SaveImage(concept) ==
    LET path == OutputPath(dir.files, BasePath(concept)) IN
    /\ dir' = [exists |-> TRUE, files |-> (path :> memeCalls') @@ dir.files]
    /\ writes' = Append(writes,
          [template |-> concept["template"], path |-> path, before |-> dir.files])
    /\ memeResult' = [kind |-> "returned", text |-> Saved(path)]

\* create_meme, lines 57-117: one call, with the request's outcome
\* a slip: os.makedirs is called on entry, before the request
RaiseFailure_after_makedirs(message) ==
    /\ memeResult' = Raised(message)
    /\ dir' = [dir EXCEPT !.exists = TRUE]
    /\ UNCHANGED writes

\* lines 66, 85-96, 117: every raise comes before line 100, the first statement
\* that touches the output directory
RaiseFailure(message) ==
    /\ memeResult' = Raised(message)
    /\ UNCHANGED <<dir, writes>>

create_meme ==
    /\ memeCalls < MaxMemeCalls
    /\ memeCalls' = memeCalls + 1
    /\ \E arg \in Concepts, http \in HttpOutcomes :
        LET concept == Unwrap(arg) IN
        /\ IF FailureOf(concept, http) # <<>>
           THEN RaiseFailure(FailureOf(concept, http))
           ELSE SaveImage(concept)
        /\ memeLog' = Append(memeLog,
              [seen |-> IF MissingKey(concept) THEN NoRequest ELSE Seen(http),
               kind |-> memeResult'.kind, text |-> memeResult'.text])
    /\ UNCHANGED <<mainVars, connVars, shellVars, pqVars, netVars>>

----------------------------------------------------------------------------
\* The client: from the start of main.

\* the meme tool, not called yet
MemeIdle ==
    /\ writes = <<>>
    /\ memeCalls = 0
    /\ memeResult = [kind |-> "none", text |-> <<>>]
    /\ memeLog = <<>>

InitClient ==
    /\ mainPc = "start"
    /\ mainExc = "none"
    /\ output = [kind |-> "none", text |-> ""]
    /\ connPc = "idle"
    /\ command = ""
    /\ session = "None"
    /\ exit_stack = <<>>
    /\ spawned = 0
    /\ released = <<>>
    /\ cleanupCalls = 0
    /\ shPc = "idle"
    /\ stdinEOF = FALSE
    /\ query = <<>>
    /\ queriesSubmitted = 0
    /\ pqPc = "idle"
    /\ pqError = "none"
    /\ available_tools = <<>>
    /\ response = <<>>
    /\ idx = 0
    /\ has_tool_calls = FALSE
    /\ final_text = <<>>
    /\ conversation_history = <<>>
    /\ answer = <<>>
    /\ inflight = {}
    /\ modelCalls = <<>>
    /\ toolCalls = <<>>
    /\ received = <<>>
    /\ gatewayFailed = FALSE

Init ==
    /\ argv \in Argvs
    /\ InitClient
    /\ dir = [exists |-> FALSE, files |-> <<>>]
    /\ MemeIdle

Next ==
    \/ main_usage
    \/ main_construct
    \/ connect_check
    \/ connect_stdio
    \/ connect_session
    \/ connect_initialize
    \/ connect_list_tools
    \/ main_except
    \/ main_finally
    \/ interrupt
    \/ chat_loop_read
    \/ chat_loop_eof
    \/ chat_loop_print
    \/ chat_loop_except
    \/ pq_list_tools
    \/ pq_list_tools_done
    \/ pq_list_tools_fail
    \/ pq_first_call
    \/ pq_next_call
    \/ pq_model_done
    \/ pq_model_fail
    \/ pq_text_block
    \/ pq_tool_call
    \/ pq_tool_done
    \/ pq_tool_fail
    \/ pq_end_of_response

Spec == Init /\ [][Next]_vars

\* the client with cleanup called again after main has ended
NextClose ==
    \/ Next
    \/ cleanup_again

SpecClose == Init /\ [][NextClose]_vars

----------------------------------------------------------------------------
\* The meme tool: calls of create_meme on an output directory.

InitMeme ==
    /\ argv = <<>>
    /\ InitClient
    /\ dir \in InitialDirs
    /\ MemeIdle

NextMeme == create_meme

SpecMeme == InitMeme /\ [][NextMeme]_vars

----------------------------------------------------------------------------
\* Properties of process_query.

RECURSIVE Flatten(_)
\* the blocks of a sequence of responses, in arrival order
Flatten(rs) == IF rs = <<>> THEN <<>> ELSE Head(rs) \o Flatten(Tail(rs))

IsText(b) == b.type = "text"

IsToolUse(b) == b.type = "tool_use"

HasToolUse(r) == \E i \in 1..Len(r) : IsToolUse(r[i])

\* the tool_use blocks of a response as (name, input) pairs, in response order
Requested(r) ==
    LET tb == SelectSeq(r, IsToolUse) IN [i \in 1..Len(tb) |-> <<tb[i].name, tb[i].input>>]

\* the call_tool requests made for the n-th response, in the order they were made
CallsOfRound(n) ==
    LET InRound(c) == c.round = n
        cs == SelectSeq(toolCalls, InRound)
    IN [i \in 1..Len(cs) |-> <<cs[i].name, cs[i].input>>]

IsPrefix(p, q) == Len(p) <= Len(q) /\ SubSeq(q, 1, Len(p)) = p

\* the texts of the text blocks
TextsOnly(blocks) ==
    LET tb == SelectSeq(blocks, IsText) IN [i \in 1..Len(tb) |-> tb[i].text]

RECURSIVE EntriesOf(_, _)
\* one entry per block: the text, or the bracketed result of the matching call
EntriesOf(blocks, calls) ==
    IF blocks = <<>> THEN <<>>
    ELSE IF IsText(Head(blocks))
    THEN <<Head(blocks).text>> \o EntriesOf(Tail(blocks), calls)
    ELSE IF calls = <<>> THEN << <<"(no call)">> >>
    ELSE << <<"[Tool ", Head(blocks).name, " result: ">> \o Head(calls).content \o <<"]">> >>
         \o EntriesOf(Tail(blocks), Tail(calls))

\* C1 as stated: the string process_query returns is the newline-join of the
\* texts of the text blocks alone, in the order received over all rounds.
C1_AnswerIsTextBlocksOnly ==
    pqPc = "returned" => answer = <<Join(TextsOnly(Flatten(received)), NL)>>

\* C1 amended: the string process_query returns is the newline-join of one entry
\* per block, in the order received over all rounds: the text of a text block,
\* and "[Tool <name> result: <content>]" for a tool_use block.
C1_AnswerIsEveryBlockInOrder ==
    pqPc = "returned" => answer = <<Join(EntriesOf(Flatten(received), toolCalls), NL)>>

\* a query answered after two rounds or more, with a tool call before a text
C1_Witness ==
    /\ pqPc = "returned"
    /\ Len(received) >= 2
    /\ \E i, j \in 1..Len(Flatten(received)) :
          /\ i < j
          /\ IsToolUse(Flatten(received)[i])
          /\ IsText(Flatten(received)[j])

\* C2: a call_tool that fails does not make process_query raise: its failure
\* text takes the result slot in final_text and in the history, and the loop
\* goes on.
C2_FailedToolCallIsFedBack ==
    \A i \in 1..Len(toolCalls) :
        toolCalls[i].raised =>
            /\ pqPc # "raised"
            /\ Len(final_text) >= i
            /\ Len(conversation_history) >= 2 * i

\* C3: for a response with N tool_use blocks exactly N call_tool requests are
\* made, in block order, one at a time, all answered before the next model
\* call; at most one request is outstanding at any time.
C3_ToolCallsSequentialInOrder ==
    /\ Cardinality(inflight) <= 1
    /\ \A i \in 1..Len(toolCalls) : i < Len(toolCalls) => toolCalls[i].done
    /\ (\E r \in inflight : r.kind # "call_tool") =>
          \A i \in 1..Len(toolCalls) : toolCalls[i].done
    /\ \A n \in 1..Len(received) : IsPrefix(CallsOfRound(n), Requested(received[n]))
    /\ \A n \in 1..Len(received) :
          (n < Len(modelCalls) \/ pqPc \in {"next_call", "returned"})
             => CallsOfRound(n) = Requested(received[n])
    /\ Len(modelCalls) \in {Len(received), Len(received) + 1}
    /\ \A i, j \in 1..Len(toolCalls) :
          /\ toolCalls[i].round \in 1..Len(received)
          /\ i < j => toolCalls[i].round <= toolCalls[j].round

\* the next model call is being made after a response with two tool_use blocks
C3_Witness ==
    /\ pqPc = "await_model"
    /\ Len(received) >= 1
    /\ Len(Requested(received[Len(received)])) = 2
    /\ CallsOfRound(Len(received)) = Requested(received[Len(received)])
    /\ Len(modelCalls) = Len(received) + 1

\* C4: process_query returns exactly when a response without tool_use block has
\* arrived: after k responses with a tool_use block and one without, it has made
\* k+1 model calls (one model call and no tool call when k = 0); as long as the
\* responses hold a tool_use block it goes on to another model call.
C4_ReturnsOnFirstResponseWithoutToolUse ==
    LET n == Len(received) IN
    /\ pqPc = "returned" =>
          /\ n >= 1
          /\ Len(modelCalls) = n
          /\ ~HasToolUse(received[n])
          /\ \A k \in 1..(n - 1) : HasToolUse(received[k])
          /\ (n = 1 => toolCalls = <<>>)
    /\ \A k \in 1..n : k < Len(modelCalls) => HasToolUse(received[k])
    /\ pqPc = "next_call" => n >= 1 /\ HasToolUse(received[n])
    /\ (n >= 1 /\ ~HasToolUse(received[n])) =>
          /\ pqPc \in {"blocks", "returned"}
          /\ Len(modelCalls) = n
    /\ (pqPc = "blocks" /\ idx > Len(response) /\ HasToolUse(received[n])) => has_tool_calls

\* process_query has returned after two responses with a tool call and a third without
C4_Witness ==
    /\ pqPc = "returned"
    /\ Len(modelCalls) = 3
    /\ Len(toolCalls) = 2

\* what holds while the failure of the Model Gateway is the last event of the query
ModelFailureState ==
    gatewayFailed =>
        /\ pqPc = "raised"
        /\ pqError = "ModelAPIError"
        /\ answer = <<>>
        /\ inflight = {}
        /\ Len(modelCalls) = Len(received) + 1
        /\ \A i \in 1..Len(toolCalls) : toolCalls[i].done

\* the only step after the failure is the caller's: the frame is dropped, and the
\* failure is what chat_loop reports (unless an interrupt unwinds it)
ModelFailureStep ==
    gatewayFailed =>
        \/ /\ gatewayFailed'
           /\ UNCHANGED <<modelCalls, toolCalls, received, final_text, answer, pqPc>>
        \/ /\ ~gatewayFailed'
           /\ pqPc' = "idle"
           /\ \/ mainExc' = "KeyboardInterrupt"
              \/ output' = [kind |-> "error", text |-> "ModelAPIError"]

\* C8: a failure of the Model Gateway, in the first or a follow-up call, ends
\* process_query at once: no request is outstanding or made afterwards, nothing
\* is returned as answer text, and the caller gets the failure.
C8_ModelFailureAborts == []ModelFailureState /\ [][ModelFailureStep]_vars

\* the follow-up model call failed, after a round that produced text and a tool result
C8_Witness ==
    /\ gatewayFailed
    /\ Len(received) >= 1
    /\ Len(toolCalls) >= 1
    /\ Len(final_text) >= 2

----------------------------------------------------------------------------
\* Properties of chat_loop, connect_to_server and main.

\* C5: after end-of-input is reached, chat_loop does not go back to reading.
C5_EndOfInputStopsShell == stdinEOF => shPc # "read"

\* C6: main does not end, once the client is constructed, without cleanup having
\* been called (and every context entered on the exit stack closed).
C6_CleanupOnEveryExit ==
    mainPc = "done" =>
        /\ cleanupCalls >= 1
        /\ exit_stack = <<>>
        /\ Len(released) = spawned + (IF session = "ClientSession" THEN 1 ELSE 0)

\* main has ended after an interrupt that came while the session was connected
C6_Witness ==
    /\ mainPc = "done"
    /\ mainExc = "KeyboardInterrupt"
    /\ shPc = "aborted"
    /\ released = <<"ClientSession", "stdio_client">>

\* the path ends in one of the two suffixes .py and .js
RecognizedSuffix(path) ==
    /\ Len(path) >= 3
    /\ <<path[Len(path) - 2], path[Len(path) - 1], path[Len(path)]>>
          \in { <<".", "p", "y">>, <<".", "j", "s">> }

\* C7: with a path without recognized suffix connect_to_server fails with the
\* ValueError, nothing is spawned, session stays None and the exit stack empty.
C7_UnsupportedScriptFailsBeforeSpawn ==
    (Len(argv) >= 1 /\ ~RecognizedSuffix(argv[1]) /\ connPc \notin {"idle", "check"}) =>
        /\ connPc = "failed"
        /\ mainExc \in {"ValueError", "KeyboardInterrupt"}
        /\ (mainPc = "except" => mainExc = "ValueError")
        /\ command = ""
        /\ spawned = 0
        /\ session = "None"
        /\ exit_stack = <<>>
        /\ released = <<>>

\* connect_to_server has refused a path that holds .py before its end
C7_Witness ==
    /\ connPc = "failed"
    /\ mainPc = "except"
    /\ mainExc = "ValueError"
    /\ argv = << <<"s", ".", "p", "y", "c">> >>

\* the step taken from a raised process_query, unless an interrupt comes first
HandlerStep ==
    (pqPc = "raised" /\ mainExc' # "KeyboardInterrupt") =>
        /\ shPc' = "read"
        /\ mainPc' = "chat_loop"
        /\ output' = [kind |-> "error", text |-> pqError]
        /\ pqPc' = "idle"
        /\ UNCHANGED <<stdinEOF, session, exit_stack, queriesSubmitted>>

\* C9: an exception of process_query is caught in chat_loop and reported, and
\* chat_loop goes on to read the next line; the exception never reaches main's
\* except clause, which only a failed connect_to_server does.
C9_FailedQueryDoesNotEndSession ==
    /\ [](mainPc = "except" => connPc = "failed")
    /\ [](pqPc = "raised" => mainPc = "chat_loop" /\ shPc = "process")
    /\ [][HandlerStep]_vars

\* a failed query was reported and the shell is reading again, with a query to come
C9_Witness ==
    /\ mainPc = "chat_loop"
    /\ shPc = "read"
    /\ output = [kind |-> "error", text |-> "ModelAPIError"]
    /\ ~stdinEOF
    /\ queriesSubmitted = 1

----------------------------------------------------------------------------
\* Properties of create_meme.

\* the k-th name of the sequence <template>.jpg, <template>_1.jpg, ...
SeqName(template, k) ==
    IF k = 0 THEN template \o <<".jpg">>
    ELSE template \o <<"_">> \o Str(k) \o <<".jpg">>

\* C10: every save goes to the first name of the sequence that is free, no file
\* that exists is overwritten, and k saves for one template into an empty
\* directory leave the first k names of the sequence and nothing else.
C10_SavesToFirstFreeName ==
    /\ \A i \in 1..Len(writes) :
          LET w == writes[i] IN
          /\ w.path \notin DOMAIN w.before
          /\ \E k \in 0..Cardinality(DOMAIN w.before) :
                /\ w.path = SeqName(w.template, k)
                /\ \A j \in 0..(k - 1) : SeqName(w.template, j) \in DOMAIN w.before
          /\ \A f \in DOMAIN w.before :
                f \in DOMAIN dir.files /\ dir.files[f] = w.before[f]
          /\ w.path \in DOMAIN dir.files
    /\ ( /\ writes # <<>>
         /\ DOMAIN writes[1].before = {}
         /\ \A i \in 1..Len(writes) : writes[i].template = writes[1].template )
       => DOMAIN dir.files = { SeqName(writes[1].template, j) : j \in 0..(Len(writes) - 1) }

\* three saves of one template, of which the last two took numbered names
C10_Witness ==
    /\ Len(writes) = 3
    /\ \A i \in 1..3 : writes[i].template = <<"a">>
    /\ DOMAIN writes[1].before # {}
    /\ writes[3].path = <<"a", "_", "3", ".jpg">>

----------------------------------------------------------------------------
\* Failures of create_meme.

\* the kind of REST failure a call met, "other" when it is none of the five
FailureKind(seen) ==
    CASE seen.raised = "Timeout" -> "timeout"
      [] seen.raised = "" /\ seen.status = 500 -> "service error"
      [] seen.raised = "" /\ seen.status = 401 -> "invalid credentials"
      [] seen.raised = "" /\ seen.status = 429 -> "rate limit"
      [] seen.raised = "" /\ seen.status = 200
            /\ (\A k \in 1..Len(seen.content_type) : seen.content_type[k] # "image")
         -> "non-image response"
      [] OTHER -> "other"

Mentions(text, word) == \E k \in 1..Len(text) : text[k] = word

\* C11: each of the five kinds of REST failure (500, 401, 429, timeout, non-image
\* response) ends the call with a failure of its own that describes it: a
\* timeout is reported as a timeout, and no two kinds give the same message.
C11_EachFailureKindHasItsOwnMessage ==
    \A i, j \in 1..Len(memeLog) :
        LET ki == FailureKind(memeLog[i].seen)
            kj == FailureKind(memeLog[j].seen)
        IN ki # "other" =>
              /\ memeLog[i].kind = "raised"
              /\ (ki = "timeout" => Mentions(memeLog[i].text, "Timeout"))
              /\ ((kj # "other" /\ ki # kj) => memeLog[i].text # memeLog[j].text)

----------------------------------------------------------------------------
\* cleanup called again, and after a connection that failed part-way.

\* the contexts this client entered, in the order of entry
Acquired ==
    (IF spawned >= 1 THEN <<"stdio_client">> ELSE <<>>)
        \o (IF session = "ClientSession" THEN <<"ClientSession">> ELSE <<>>)

\* C12: whenever cleanup has been called, once or again, after a full connection
\* or one that failed part-way, every context the client entered has been
\* released exactly once, in reverse order of entry, and the exit stack is empty:
\* a second call changes nothing.
C12_CleanupIsIdempotent ==
    cleanupCalls >= 1 =>
        /\ exit_stack = <<>>
        /\ released = Reverse(Acquired)

\* cleanup has run twice on a client that had entered the transport only
C12_Witness ==
    /\ cleanupCalls = 2
    /\ spawned = 1
    /\ session = "None"
    /\ released = <<"stdio_client">>

----------------------------------------------------------------------------
\* The conversation history of one query.

\* the blocks process_query has finished with: all of the earlier responses and
\* the blocks of the latest one before the position of the for loop
Processed ==
    IF received = <<>> THEN <<>>
    ELSE Flatten(SubSeq(received, 1, Len(received) - 1))
            \o SubSeq(received[Len(received)], 1, idx - 1)

RECURSIVE HistoryOf(_, _)
\* per block, in order: one assistant entry for a text; for a tool_use an
\* assistant entry noting the call, then a user entry with the result
HistoryOf(blocks, calls) ==
    IF blocks = <<>> THEN <<>>
    ELSE IF IsText(Head(blocks))
    THEN <<[role |-> "assistant", content |-> Head(blocks).text]>>
         \o HistoryOf(Tail(blocks), calls)
    ELSE IF calls = <<>> THEN <<[role |-> "(no call)", content |-> <<>>]>>
    ELSE <<[role |-> "assistant",
            content |-> <<"I'm using the ", Head(blocks).name,
                          " tool with these parameters: ", Head(blocks).input>>],
           [role |-> "user", content |-> <<"Tool result: ">> \o Head(calls).content]>>
         \o HistoryOf(Tail(blocks), Tail(calls))

HistoryStep ==
    \/ IsPrefix(conversation_history, conversation_history')
    \/ pqPc' = "idle"

\* C13: within one query the history only grows at its end, never losing or
\* reordering an entry, and it always holds, in block order over all rounds, the
\* assistant entry of each text block and, for each tool call, the assistant
\* entry noting the call followed by the user entry with its result.
C13_HistoryAppendOnlyInBlockOrder ==
    /\ [](conversation_history = HistoryOf(Processed, toolCalls))
    /\ [][HistoryStep]_vars

\* a text and then a tool call have been recorded
C13_Witness ==
    /\ Len(conversation_history) = 3
    /\ IsText(Processed[1])
    /\ IsToolUse(Processed[2])
    /\ conversation_history[3].role = "user"

----------------------------------------------------------------------------
\* The requests sent to the model for one query.

UserQuery == [role |-> "user", content |-> query]

\* the history as it stands when the k-th model call is made
HistoryBeforeCall(k) == HistoryOf(Flatten(SubSeq(received, 1, k - 1)), toolCalls)

\* C14: the first model call of a query is sent the user's query alone; every
\* follow-up call is sent the whole history accumulated so far, in order,
\* followed by the user's original query as the final entry.
C14_FollowUpSendsHistoryThenQuery ==
    \A k \in 1..Len(modelCalls) :
        modelCalls[k].messages =
            IF k = 1 THEN <<UserQuery>> ELSE HistoryBeforeCall(k) \o <<UserQuery>>

\* a follow-up call made after a response with a text and a tool call
C14_Witness ==
    /\ Len(modelCalls) = 2
    /\ Len(received[1]) = 2
    /\ Len(modelCalls[2].messages) = 4
    /\ modelCalls[2].messages[4] = UserQuery

\* C15: all model calls made for one query are sent the same system prompt and
\* the same tools.
C15_SamePromptAndToolsOnEveryCall ==
    \A j, k \in 1..Len(modelCalls) :
        /\ modelCalls[j].system = modelCalls[k].system
        /\ modelCalls[j].tools = modelCalls[k].tools

----------------------------------------------------------------------------
\* A tool_use block naming a tool the provider did not list.

IsListed(name) == \E t \in 1..Len(available_tools) : available_tools[t].name = name

\* C16: a call of a tool that is not among the tools listed for the query never
\* aborts process_query: once answered, it has raised nothing and its (error)
\* result is recorded in the history, so the loop goes on.
C16_UnknownToolFailsThatCallOnly ==
    \A i \in 1..Len(toolCalls) :
        (toolCalls[i].done /\ ~IsListed(toolCalls[i].name)) =>
            /\ ~toolCalls[i].raised
            /\ pqPc # "raised"
            /\ \E m \in 1..Len(conversation_history) :
                  conversation_history[m] =
                      [role |-> "user",
                       content |-> <<"Tool result: ">> \o toolCalls[i].content]

----------------------------------------------------------------------------
\* One query after another on the same client.

\* C17: nothing of an earlier query is left in a later one: until the first
\* response of a query has come its history and accumulated answer are empty,
\* its first model call is sent the query alone, and from then on the history
\* and the accumulated answer are those of the blocks of this query only.
C17_NoStateCarriedBetweenQueries ==
    /\ received = <<>> => (conversation_history = <<>> /\ final_text = <<>>)
    /\ modelCalls # <<>> => modelCalls[1].messages = <<UserQuery>>
    /\ Len(modelCalls) <= Len(received) + 1
    /\ conversation_history = HistoryOf(Processed, toolCalls)
    /\ final_text = EntriesOf(Processed, toolCalls)

\* the second query of a session has recorded blocks of its own
C17_Witness ==
    /\ queriesSubmitted = 2
    /\ pqPc = "returned"
    /\ Len(conversation_history) >= 1
    /\ Len(modelCalls) >= 1

----------------------------------------------------------------------------
\* The sizes of the accumulated answer and of the history.

TextsSeen == Len(SelectSeq(Processed, IsText))

ReturnedCall(c) == c.done /\ ~c.raised

\* the tool calls made that gave a result
ToolCallsMade == Len(SelectSeq(toolCalls, ReturnedCall))

\* C18: the accumulated answer holds one entry per processed block, in processing
\* order (the text, or "[Tool <name> result: <content>]"), so its length is the
\* text blocks seen plus the tool calls made, and the length of the history is
\* the text blocks seen plus twice the tool calls made.
C18_OneEntryPerBlock ==
    /\ final_text = EntriesOf(Processed, toolCalls)
    /\ Len(SelectSeq(Processed, IsToolUse)) = ToolCallsMade
    /\ Len(final_text) = TextsSeen + ToolCallsMade
    /\ Len(conversation_history) = TextsSeen + 2 * ToolCallsMade

\* a query answered from a tool call in one round and a text in the next
C18_Witness ==
    /\ pqPc = "returned"
    /\ Len(received) = 2
    /\ TextsSeen = 1
    /\ ToolCallsMade = 1
    /\ Len(conversation_history) = 3

----------------------------------------------------------------------------
\* create_meme and the output directory.

LastSeen == memeLog'[Len(memeLog')].seen

FailureStep == memeCalls' = memeCalls + 1 /\ memeResult'.kind = "raised"

\* C19: a call of create_meme that ends in a failure leaves the output directory
\* as it was (no directory made, no file made or changed), and the directory
\* changes only in a call that got a 200 response with an image content type.
C19_FailureLeavesDirectoryUnchanged ==
    [][/\ FailureStep => (dir' = dir /\ writes' = writes)
       /\ dir' # dir => /\ memeResult'.kind = "returned"
                        /\ LastSeen.raised = ""
                        /\ LastSeen.status = 200
                        /\ IsImage(LastSeen.content_type)]_vars

\* the last check failed (the response was no image) where no directory existed
C19_Witness ==
    /\ memeResult.kind = "raised"
    /\ memeLog # <<>>
    /\ FailureKind(memeLog[Len(memeLog)].seen) = "non-image response"
    /\ ~dir.exists

====
